---- MODULE Spec2Model ----
(***************************************************************************)
(* Model of hw2/src/utils/user_stats.py: the UserStatsUtils dataclass.     *)
(*                                                                         *)
(* State: the content of the input (data) file, the content of the output  *)
(* file, the all_ages field of the object, and the outcome of the latest   *)
(* property access or method call.  Time is counted in whole days.  An     *)
(* average method reads datetime.now() once per user; the reads of one     *)
(* call are taken as one value, which is an input of the call, while the   *)
(* five calls of user_stats may each read a later value.                   *)
(***************************************************************************)
EXTENDS Integers, Sequences, FiniteSets

VARIABLES data_file, output_file, all_ages, result, last_access

vars == <<data_file, output_file, all_ages, result, last_access>>

(***************************************************************************)
(* Bounds of the model.                                                    *)
(***************************************************************************)
\* largest number of records in the JSON mapping of the data file
MaxUsers == 2
\* largest length of the all_ages list
MaxAges == 3

(***************************************************************************)
(* hw2.src.enums.Period: the target periods, in days.                      *)
(***************************************************************************)
two_days == 2
week == 7
month == 30
half_of_year == 180

LtPeriods == {two_days, week, month, half_of_year}

(***************************************************************************)
(* Input values.                                                           *)
(***************************************************************************)
\* ages that occur in all_ages
Ages == {20, 31}

\* values datetime.now() can return, in days
Nows == {200, 201}

\* a record of the mapping that fails the schemas.User validation
InvalidRecord == [valid |-> FALSE, age |-> 0, last_login |-> 0]

\* records of the mapping that pass it; the last_login values put the offline
\* duration on, just under and just over every target period for the clock
\* values of Nows (1 or 2, 6 or 7, 29 or 30, 180 or 181, 181 or 182 days)
ValidRecords ==
    { [valid |-> TRUE, age |-> 20, last_login |-> 199],
      [valid |-> TRUE, age |-> 31, last_login |-> 194],
      [valid |-> TRUE, age |-> 20, last_login |-> 171],
      [valid |-> TRUE, age |-> 20, last_login |-> 20],
      [valid |-> TRUE, age |-> 31, last_login |-> 19] }

UserRecords == ValidRecords \cup {InvalidRecord}

SeqsUpTo(S, n) == UNION { [1..k -> S] : k \in 0..n }

\* what the data file can hold: text that is not JSON, a JSON value that is not
\* an object, or a JSON object user-name -> user-attributes (its values, in
\* the order of the file)
InvalidJsonFile == [kind |-> "invalid_json", items |-> <<>>]
NotMappingFile == [kind |-> "not_mapping", items |-> <<>>]
MappingFile(items) == [kind |-> "mapping", items |-> items]

DataFiles ==
    {InvalidJsonFile, NotMappingFile}
        \cup { MappingFile(items) : items \in SeqsUpTo(UserRecords, MaxUsers) }

\* content of the output file left by an earlier run
PreviousContent == [msg |-> "previous content"]

(***************************************************************************)
(* Helpers of the translation.                                             *)
(***************************************************************************)
RECURSIVE sum(_)
\* Python's sum() over a list
sum(s) == IF s = <<>> THEN 0 ELSE Head(s) + sum(Tail(s))

\* the ages of a list of users (user.age for user in ...)
AgesOf(us) == [i \in DOMAIN us |-> us[i].age]

\* .common.create_error_object(msg): the structured error object
create_error_object(msg) == [msg |-> msg]

\* schemas.User(**user_data)
User(user_data) == [age |-> user_data.age, last_login |-> user_data.last_login]

\* msgspec.json.decode(..., type=schemas.User) raises ValidationError
FailsSchema(user_data) == ~user_data.valid

(***************************************************************************)
(* validate_user_models: the loop over users_data.values().  The list      *)
(* built so far is a local of the call and is lost when decode raises.     *)
(***************************************************************************)
RECURSIVE ValidateLoop(_, _, _)
ValidateLoop(items, i, acc) ==
    IF i > Len(items) THEN [exc |-> "none", users |-> acc]
    ELSE IF FailsSchema(items[i]) THEN [exc |-> "ValidationError", users |-> <<>>]
    ELSE ValidateLoop(items, i + 1, Append(acc, User(items[i])))

RECURSIVE ValidateLoopKeep(_, _, _)
ValidateLoopKeep(items, i, acc) ==
    IF i > Len(items) THEN [exc |-> "none", users |-> acc]
    ELSE IF FailsSchema(items[i]) THEN [exc |-> "none", users |-> acc]
    ELSE ValidateLoopKeep(items, i + 1, Append(acc, User(items[i])))

\* faulty variant: the records validated before the bad one are returned
validate_user_models_partial(users_data) ==
    IF users_data.kind # "mapping" THEN [exc |-> "AttributeError", users |-> <<>>]
    ELSE ValidateLoopKeep(users_data.items, 1, <<>>)

validate_user_models(users_data) ==
    IF users_data.kind # "mapping" THEN [exc |-> "AttributeError", users |-> <<>>]
    ELSE ValidateLoop(users_data.items, 1, <<>>)

(***************************************************************************)
(* The users property.  out is the content of the output file before the   *)
(* access; the outcome carries the content after it.                       *)
(***************************************************************************)
UsersOutcome(exc, us, out, validated) ==
    [exc |-> exc, users |-> us, output |-> out, validate_called |-> validated]

\* faulty variant: the output file is opened for appending
users_append(file, out) ==
    IF file.kind = "invalid_json"
    THEN UsersOutcome("JSONDecodeError", <<>>,
                      Append(out, create_error_object("Invalid JSON file provided")),
                      FALSE)
    ELSE LET v == validate_user_models(file) IN
         IF v.exc = "ValidationError"
         THEN UsersOutcome(v.exc, <<>>,
                           Append(out, create_error_object("Validation error for user items")),
                           TRUE)
         ELSE UsersOutcome(v.exc, v.users, out, TRUE)

\* faulty variant: the parse failure is written to the output file and swallowed
users_swallow(file, out) ==
    IF file.kind = "invalid_json"
    THEN UsersOutcome("none", <<>>,
                      <<create_error_object("Invalid JSON file provided")>>,
                      TRUE)
    ELSE LET v == validate_user_models(file) IN
         IF v.exc = "ValidationError"
         THEN UsersOutcome(v.exc, <<>>,
                           <<create_error_object("Validation error for user items")>>,
                           TRUE)
         ELSE UsersOutcome(v.exc, v.users, <<>>, TRUE)

users(file, out) ==
    LET opened == <<>>   \* open(self.output_file_path, 'w') truncates
    IN  IF file.kind = "invalid_json"
        THEN UsersOutcome("JSONDecodeError", <<>>,
                          Append(opened, create_error_object("Invalid JSON file provided")),
                          FALSE)
        ELSE LET v == validate_user_models(file) IN
             IF v.exc = "ValidationError"
             THEN UsersOutcome(v.exc, <<>>,
                               Append(opened,
                                      create_error_object("Validation error for user items")),
                               TRUE)
             ELSE UsersOutcome(v.exc, v.users, opened, TRUE)

(***************************************************************************)
(* user_is_offline_lt_target_period: datetime.now() - last_login < target  *)
(* with now the clock value the call reads.                                *)
(***************************************************************************)
\* faulty variant: the boundary is included
user_is_offline_le_target_period(user_item, target_period, now) ==
    now - user_item.last_login <= target_period

user_is_offline_lt_target_period(user_item, target_period, now) ==
    LET last_login_date == user_item.last_login
        target_date == target_period
    IN  now - last_login_date < target_date

(***************************************************************************)
(* The two average methods.  Each reads self.users once, so each opens the *)
(* output file.  members is the set of positions (in the users list) of    *)
(* the users the call counted.                                             *)
(***************************************************************************)
AvgOutcome(exc, value, out, members) ==
    [exc |-> exc, value |-> value, output |-> out, members |-> members]

\* faulty variant: the sum is divided by the number of all users
get_lt_period_avg_over_all(file, out, target_period, now) ==
    LET a == users(file, out) IN
    IF a.exc # "none" THEN AvgOutcome(a.exc, 0, a.output, {})
    ELSE LET keep(user_item) ==
                 user_is_offline_lt_target_period(user_item, target_period, now)
             filtered_by_offline_period == SelectSeq(a.users, keep)
             members == {i \in DOMAIN a.users : keep(a.users[i])}
             number_of_users == Len(filtered_by_offline_period)
         IN  IF number_of_users = 0 THEN AvgOutcome("none", 0, a.output, members)
             ELSE AvgOutcome("none",
                             sum(AgesOf(filtered_by_offline_period)) \div Len(a.users),
                             a.output, members)

get_lt_period_offline_users_avg_age(file, out, target_period, now) ==
    LET a == users(file, out) IN
    IF a.exc # "none" THEN AvgOutcome(a.exc, 0, a.output, {})
    ELSE LET keep(user_item) ==
                 user_is_offline_lt_target_period(user_item, target_period, now)
             filtered_by_offline_period == SelectSeq(a.users, keep)
             members == {i \in DOMAIN a.users : keep(a.users[i])}
             number_of_users == Len(filtered_by_offline_period)
         IN  IF number_of_users = 0 THEN AvgOutcome("none", 0, a.output, members)
             ELSE AvgOutcome("none",
                             sum(AgesOf(filtered_by_offline_period)) \div number_of_users,
                             a.output, members)

\* faulty variant: the boundary is included
get_ge_half_of_year_offline_users_avg_age(file, out, now) ==
    LET a == users(file, out) IN
    IF a.exc # "none" THEN AvgOutcome(a.exc, 0, a.output, {})
    ELSE LET gt(user) == now - user.last_login >= half_of_year
             gt_half_year_offline_users == AgesOf(SelectSeq(a.users, gt))
             members == {i \in DOMAIN a.users : gt(a.users[i])}
             number_of_users == Len(gt_half_year_offline_users)
         IN  IF number_of_users = 0 THEN AvgOutcome("none", 0, a.output, members)
             ELSE AvgOutcome("none",
                             sum(gt_half_year_offline_users) \div number_of_users,
                             a.output, members)

get_gt_half_of_year_offline_users_avg_age(file, out, now) ==
    LET a == users(file, out) IN
    IF a.exc # "none" THEN AvgOutcome(a.exc, 0, a.output, {})
    ELSE LET gt(user) ==
                 LET last_login_date == user.last_login
                     target_date == half_of_year
                 IN  now - last_login_date > target_date
             gt_half_year_offline_users == AgesOf(SelectSeq(a.users, gt))
             members == {i \in DOMAIN a.users : gt(a.users[i])}
             number_of_users == Len(gt_half_year_offline_users)
         IN  IF number_of_users = 0 THEN AvgOutcome("none", 0, a.output, members)
             ELSE AvgOutcome("none",
                             sum(gt_half_year_offline_users) \div number_of_users,
                             a.output, members)

(***************************************************************************)
(* The user_stats property.  ts[1..5] are the clock values read by the     *)
(* five average calls, in the order of the dict display.  The calls run    *)
(* one after the other; the first that raises ends the evaluation and no   *)
(* mapping is returned.  groups maps each offline key to the members its   *)
(* call counted; accesses counts the reads of self.users.                  *)
(***************************************************************************)
AgeKeys == {"max_age", "min_age", "avg_age", "median_age"}

LtKey(target_period) ==
    CASE target_period = two_days -> "lt_two_days_offline_users_average_age"
      [] target_period = week -> "lt_week_offline_users_average_age"
      [] target_period = month -> "lt_month_offline_users_average_age"
      [] target_period = half_of_year -> "lt_half_of_year_offline_users_average_age"

GtKey == "gt_half_of_year_offline_users_average_age"

OfflineKeys == {LtKey(p) : p \in LtPeriods} \cup {GtKey}

StatKeys == AgeKeys \cup OfflineKeys

EmptyMapping == [k \in {} |-> 0]

StatsOutcome(exc, value, out, groups, accesses) ==
    [exc |-> exc, value |-> value, output |-> out, groups |-> groups,
     accesses |-> accesses]

\* the value and the members of the call that fills key k
ValueOf(k, c1, c2, c3, c4, c5) ==
    CASE k = LtKey(two_days) -> c1.value
      [] k = LtKey(week) -> c2.value
      [] k = LtKey(month) -> c3.value
      [] k = LtKey(half_of_year) -> c4.value
      [] k = GtKey -> c5.value

MembersOf(k, c1, c2, c3, c4, c5) ==
    CASE k = LtKey(two_days) -> c1.members
      [] k = LtKey(week) -> c2.members
      [] k = LtKey(month) -> c3.members
      [] k = LtKey(half_of_year) -> c4.members
      [] k = GtKey -> c5.members

\* faulty variant: a failing call leaves its key out and the rest of the mapping is returned
user_stats_partial(ages, file, out, ts) ==
    LET number_of_users == Len(ages) IN
    IF number_of_users = 0 THEN StatsOutcome("none", EmptyMapping, out, EmptyMapping, 0)
    ELSE LET c1 == get_lt_period_offline_users_avg_age(file, out, two_days, ts[1])
             c2 == get_lt_period_offline_users_avg_age(file, c1.output, week, ts[2])
             c3 == get_lt_period_offline_users_avg_age(file, c2.output, month, ts[3])
             c4 == get_lt_period_offline_users_avg_age(file, c3.output, half_of_year, ts[4])
             c5 == get_gt_half_of_year_offline_users_avg_age(file, c4.output, ts[5])
             Ok(c) == [value |-> c.exc = "none"]
             keys == AgeKeys \cup
                         {k \in OfflineKeys :
                             ValueOf(k, Ok(c1), Ok(c2), Ok(c3), Ok(c4), Ok(c5))}
         IN  StatsOutcome("none",
                          [k \in keys |->
                              IF k \in AgeKeys THEN ages[1]
                              ELSE ValueOf(k, c1, c2, c3, c4, c5)],
                          c5.output,
                          [k \in keys \ AgeKeys |-> MembersOf(k, c1, c2, c3, c4, c5)],
                          5)

\* faulty variant: the periods of the week and month keys are exchanged
user_stats_swapped(ages, file, out, ts) ==
    LET number_of_users == Len(ages) IN
    IF number_of_users = 0 THEN StatsOutcome("none", EmptyMapping, out, EmptyMapping, 0)
    ELSE LET c1 == get_lt_period_offline_users_avg_age(file, out, two_days, ts[1])
             c2 == get_lt_period_offline_users_avg_age(file, c1.output, month, ts[2])
             c3 == get_lt_period_offline_users_avg_age(file, c2.output, week, ts[3])
             c4 == get_lt_period_offline_users_avg_age(file, c3.output, half_of_year, ts[4])
             c5 == get_gt_half_of_year_offline_users_avg_age(file, c4.output, ts[5])
         IN  IF c1.exc # "none"
             THEN StatsOutcome(c1.exc, EmptyMapping, c1.output, EmptyMapping, 1)
             ELSE StatsOutcome("none",
                      [k \in StatKeys |->
                          IF k \in AgeKeys THEN ages[1]
                          ELSE ValueOf(k, c1, c2, c3, c4, c5)],
                      c5.output,
                      [k \in OfflineKeys |-> MembersOf(k, c1, c2, c3, c4, c5)],
                      5)

user_stats(ages, file, out, ts) ==
    LET number_of_users == Len(ages) IN
    IF number_of_users = 0 THEN StatsOutcome("none", EmptyMapping, out, EmptyMapping, 0)
    ELSE LET half_num_of_users == number_of_users \div 2
             \* Python indexes from 0: all_ages[i] is ages[i + 1]
             median_age ==
                 IF number_of_users % 2 = 0
                 THEN (ages[half_num_of_users + 1] + ages[half_num_of_users]) \div 2
                 ELSE ages[half_num_of_users + 1]
             max_age == ages[number_of_users]
             min_age == ages[1]
             avg_age == sum(ages) \div number_of_users
             \* the five calls of the dict display, each on the output file
             \* the call before it left
             c1 == get_lt_period_offline_users_avg_age(file, out, two_days, ts[1])
             c2 == get_lt_period_offline_users_avg_age(file, c1.output, week, ts[2])
             c3 == get_lt_period_offline_users_avg_age(file, c2.output, month, ts[3])
             c4 == get_lt_period_offline_users_avg_age(file, c3.output, half_of_year, ts[4])
             c5 == get_gt_half_of_year_offline_users_avg_age(file, c4.output, ts[5])
             Failed(c, n) == StatsOutcome(c.exc, EmptyMapping, c.output, EmptyMapping, n)
         IN  \* the first call that raises ends the evaluation
             IF c1.exc # "none" THEN Failed(c1, 1)
             ELSE IF c2.exc # "none" THEN Failed(c2, 2)
             ELSE IF c3.exc # "none" THEN Failed(c3, 3)
             ELSE IF c4.exc # "none" THEN Failed(c4, 4)
             ELSE IF c5.exc # "none" THEN Failed(c5, 5)
             ELSE StatsOutcome("none",
                      [k \in StatKeys |->
                          CASE k = "max_age" -> max_age
                            [] k = "min_age" -> min_age
                            [] k = "avg_age" -> avg_age
                            [] k = "median_age" -> median_age
                            [] OTHER -> ValueOf(k, c1, c2, c3, c4, c5)],
                      c5.output,
                      [k \in OfflineKeys |-> MembersOf(k, c1, c2, c3, c4, c5)],
                      5)

(***************************************************************************)
(* The state machine: one action per property or method of the object,     *)
(* and the replacement of the data file between two calls.  The program    *)
(* is sequential: result holds the outcome of the call that has just       *)
(* ended, and the next call starts once the caller has taken it.           *)
(***************************************************************************)
NoResult == [op |-> "none"]

\* last_access: how the latest read of self.users ended (its exception, or
\* "none"); a call that made no read leaves it alone
NoAccess == "no access"

AccessOf(exc, accesses) == IF accesses = 0 THEN last_access ELSE exc

ClockReads == { ts \in [1..5 -> Nows] : \A i \in 1..4 : ts[i] <= ts[i + 1] }

Init ==
    /\ data_file \in DataFiles
    /\ output_file \in {<<>>, <<PreviousContent>>}
    /\ all_ages \in SeqsUpTo(Ages, MaxAges)
    /\ result = NoResult
    /\ last_access = NoAccess

\* value = self.users
GetUsers ==
    LET a == users(data_file, output_file) IN
    /\ result = NoResult
    /\ result' = [op |-> "users", exc |-> a.exc, value |-> a.users,
                  validate_called |-> a.validate_called, before |-> output_file]
    /\ output_file' = a.output
    /\ last_access' = AccessOf(a.exc, 1)
    /\ UNCHANGED <<data_file, all_ages>>

\* value = self.get_lt_period_offline_users_avg_age(target_period)
GetLtAvg(target_period, now) ==
    LET c == get_lt_period_offline_users_avg_age(data_file, output_file,
                                                 target_period, now) IN
    /\ result = NoResult
    /\ result' = [op |-> "lt_avg", exc |-> c.exc, value |-> c.value,
                  target_period |-> target_period, now |-> now,
                  members |-> c.members]
    /\ output_file' = c.output
    /\ last_access' = AccessOf(c.exc, 1)
    /\ UNCHANGED <<data_file, all_ages>>

\* value = self.get_gt_half_of_year_offline_users_avg_age()
GetGtAvg(now) ==
    LET c == get_gt_half_of_year_offline_users_avg_age(data_file, output_file, now) IN
    /\ result = NoResult
    /\ result' = [op |-> "gt_avg", exc |-> c.exc, value |-> c.value,
                  now |-> now, members |-> c.members]
    /\ output_file' = c.output
    /\ last_access' = AccessOf(c.exc, 1)
    /\ UNCHANGED <<data_file, all_ages>>

\* value = self.user_stats
GetUserStats(ts) ==
    LET s == user_stats(all_ages, data_file, output_file, ts) IN
    /\ result = NoResult
    /\ result' = [op |-> "user_stats", exc |-> s.exc, value |-> s.value,
                  ts |-> ts, groups |-> s.groups, accesses |-> s.accesses,
                  before |-> output_file]
    /\ output_file' = s.output
    /\ last_access' = AccessOf(s.exc, s.accesses)
    /\ UNCHANGED <<data_file, all_ages>>

\* files the data file is replaced by between two calls
ReplacementFiles ==
    {InvalidJsonFile, NotMappingFile, MappingFile(<<>>), MappingFile(<<InvalidRecord>>)}

\* the data file is rewritten by its owner; the object holds only its path
ReplaceDataFile(file) ==
    /\ result = NoResult
    /\ file # data_file
    /\ data_file' = file
    /\ UNCHANGED <<output_file, all_ages, result, last_access>>

\* the call returns (or raises) to the caller, which may then make the next one
Return ==
    /\ result # NoResult
    /\ result' = NoResult
    /\ UNCHANGED <<data_file, output_file, all_ages, last_access>>

Next ==
    \/ GetUsers
    \/ \E target_period \in LtPeriods, now \in Nows : GetLtAvg(target_period, now)
    \/ \E now \in Nows : GetGtAvg(now)
    \/ \E ts \in ClockReads : GetUserStats(ts)
    \/ \E file \in ReplacementFiles : ReplaceDataFile(file)
    \/ Return

Spec == Init /\ [][Next]_vars

(***************************************************************************)
(* Definitions the properties are stated with.                             *)
(***************************************************************************)
InvalidJsonError == create_error_object("Invalid JSON file provided")
ValidationErrorObject == create_error_object("Validation error for user items")

Raised == result.exc # "none"

RECURSIVE SumOver(_, _)
\* the sum of f[i] over the positions i of S
SumOver(f, S) ==
    IF S = {} THEN 0
    ELSE LET i == CHOOSE x \in S : TRUE IN f[i] + SumOver(f, S \ {i})

\* v is the floor of (sum of f over S) / (number of positions in S)
IsFloorAvg(v, f, S) ==
    /\ Cardinality(S) * v <= SumOver(f, S)
    /\ SumOver(f, S) < Cardinality(S) * (v + 1)

\* v lies between the smallest and the largest f[i], i in S
IsBetween(v, f, S) ==
    /\ \E i \in S : f[i] <= v
    /\ \E i \in S : v <= f[i]

\* the ages and the offline durations of the records of the data file
FileAges == [i \in DOMAIN data_file.items |-> data_file.items[i].age]
OfflineFor(i, now) == now - data_file.items[i].last_login

OfflineLess(target_period, now) ==
    {i \in DOMAIN data_file.items : OfflineFor(i, now) < target_period}
OfflineMore(target_period, now) ==
    {i \in DOMAIN data_file.items : OfflineFor(i, now) > target_period}

\* the ascending arrangement of a list of ages
Count(s, a) == Cardinality({i \in DOMAIN s : s[i] = a})
Ascending(s) ==
    CHOOSE t \in [DOMAIN s -> {s[i] : i \in DOMAIN s}] :
        /\ \A i, j \in DOMAIN s : i <= j => t[i] <= t[j]
        /\ \A i \in DOMAIN s : Count(t, s[i]) = Count(s, s[i])

StatsReturned == result.op = "user_stats" /\ ~Raised /\ all_ages # <<>>

\* C1: on a data file that is not JSON, reading users raises the parse failure,
\* returns no list, never calls the validation, and leaves the error object
\* 'Invalid JSON file provided' as the only content of the output file
C1_InvalidJsonWritesErrorAndRaises ==
    (result.op = "users" /\ data_file.kind = "invalid_json") =>
        /\ result.exc = "JSONDecodeError"
        /\ result.value = <<>>
        /\ ~result.validate_called
        /\ output_file = <<InvalidJsonError>>

C1_Witness ==
    /\ result.op = "users"
    /\ data_file.kind = "invalid_json"
    /\ result.before = <<PreviousContent>>
    /\ output_file = <<InvalidJsonError>>

\* C2: on a JSON mapping with a record that fails the schema, wherever it is,
\* reading users raises the validation failure, returns none of the records
\* validated before it, and writes 'Validation error for user items'
C2_InvalidRecordWritesErrorAndRaises ==
    (/\ result.op = "users"
     /\ data_file.kind = "mapping"
     /\ \E i \in DOMAIN data_file.items : ~data_file.items[i].valid) =>
        /\ result.exc = "ValidationError"
        /\ result.value = <<>>
        /\ output_file = <<ValidationErrorObject>>

C2_Witness ==
    /\ result.op = "users"
    /\ data_file.kind = "mapping"
    /\ Len(data_file.items) = 2
    /\ data_file.items[1].valid
    /\ ~data_file.items[2].valid
    /\ result.exc = "ValidationError"

\* C3: for any all_ages that is not empty, in any order, min_age is the
\* smallest age and max_age the largest
C3_MinMaxOfAnyOrder ==
    StatsReturned =>
        /\ \A i \in DOMAIN all_ages : result.value["min_age"] <= all_ages[i]
        /\ \A i \in DOMAIN all_ages : all_ages[i] <= result.value["max_age"]

\* C4: median_age is the median of the ages: the middle one in sorted order
\* for an odd count, the floor of half the sum of the two middle ones in
\* sorted order for an even count
C4_MedianOfSortedAges ==
    StatsReturned =>
        LET sorted == Ascending(all_ages)
            n == Len(all_ages)
            m == result.value["median_age"]
        IN  IF n % 2 = 1 THEN m = sorted[(n + 1) \div 2]
            ELSE /\ 2 * m <= sorted[n \div 2] + sorted[n \div 2 + 1]
                 /\ sorted[n \div 2] + sorted[n \div 2 + 1] < 2 * (m + 1)

C6_LtAverageOverStrictlyLess ==
    (result.op = "lt_avg" /\ ~Raised) =>
        LET group == OfflineLess(result.target_period, result.now) IN
        /\ result.members = group
        /\ group = {} => result.value = 0
        /\ group # {} => IsFloorAvg(result.value, FileAges, group)

\* one user offline for exactly P, left out, beside one offline for less
C6_Witness ==
    /\ result.op = "lt_avg"
    /\ ~Raised
    /\ \E i \in DOMAIN data_file.items :
          /\ OfflineFor(i, result.now) = result.target_period
          /\ i \notin result.members
    /\ result.members # {}

\* C7: get_gt_half_of_year_offline_users_avg_age counts exactly the users
\* offline for strictly more than 6 months at the time of the call (a user
\* offline for exactly 6 months is left out), returns the floor of their mean
\* age, and 0 when there is none
C7_GtAverageOverStrictlyMore ==
    (result.op = "gt_avg" /\ ~Raised) =>
        LET group == OfflineMore(half_of_year, result.now) IN
        /\ result.members = group
        /\ group = {} => result.value = 0
        /\ group # {} => IsFloorAvg(result.value, FileAges, group)

\* one user offline for exactly 6 months, left out, beside one offline for more
C7_Witness ==
    /\ result.op = "gt_avg"
    /\ ~Raised
    /\ \E i \in DOMAIN data_file.items :
          /\ OfflineFor(i, result.now) = half_of_year
          /\ i \notin result.members
    /\ result.members # {}

\* the five calls of one user_stats read the same clock value
FixedTime == \A i \in 1..5 : result.ts[i] = result.ts[1]

\* C8: for a fixed current time the groups of one user_stats result are
\* nested (2 days within 1 week within 1 month within 6 months), no user is
\* in both the less-than and the more-than-6-months group, and a user in
\* neither has been offline for exactly 6 months
C8_GroupsNestedAndPartitioned ==
    (StatsReturned /\ FixedTime) =>
        LET g == result.groups IN
        /\ g[LtKey(two_days)] \subseteq g[LtKey(week)]
        /\ g[LtKey(week)] \subseteq g[LtKey(month)]
        /\ g[LtKey(month)] \subseteq g[LtKey(half_of_year)]
        /\ g[LtKey(half_of_year)] \cap g[GtKey] = {}
        /\ \A i \in DOMAIN data_file.items :
              i \notin (g[LtKey(half_of_year)] \cup g[GtKey]) =>
                  OfflineFor(i, result.ts[1]) = half_of_year

\* a week group smaller than the month group, and a user in neither the
\* less-than nor the more-than-6-months group
C8_Witness ==
    /\ StatsReturned
    /\ FixedTime
    /\ result.groups[LtKey(week)] # result.groups[LtKey(month)]
    /\ \E i \in DOMAIN data_file.items :
          i \notin (result.groups[LtKey(half_of_year)] \cup result.groups[GtKey])

\* C9: once users has been read, the output file holds nothing when the
\* latest read wrote no error object, and else exactly the one error object
\* of the latest read, whatever the file held before
C9_OutputHoldsOnlyLatestError ==
    last_access # NoAccess =>
        output_file =
            CASE last_access = "JSONDecodeError" -> <<InvalidJsonError>>
              [] last_access = "ValidationError" -> <<ValidationErrorObject>>
              [] OTHER -> <<>>

\* a read that succeeds on an output file holding the error object of the
\* read before it
C9_Witness ==
    /\ result.op = "users"
    /\ ~Raised
    /\ result.before = <<ValidationErrorObject>>
    /\ output_file = <<>>

====
